---- MODULE Spec2Model ----
(***************************************************************************)
(* Captura-ecli: the dual-backend StorageService, the parseCsmHtml         *)
(* identity rule and the ingestion handlers of the App component.          *)
(*                                                                         *)
(* Strings are sequences of one-character strings, so that the file-name   *)
(* arithmetic of the native backend (sanitization, the ".txt" / ".json"    *)
(* extensions, replace, endsWith) is computed and not assumed.             *)
(*                                                                         *)
(* SpecStore    one sequence of StorageService calls applied to a native   *)
(*              and to a virtual service                                   *)
(* SpecApp      the App with background ingestion (src/unnamed/part_002)   *)
(* SpecClip     the same App between two ticks of its timer                *)
(* SpecCapture  the App with the confirmation dialog only (src/App.tsx)    *)
(* SpecService  one StorageService from before a backend is selected       *)
(* SpecParser   parseCsmHtml applied to a content and a url                *)
(* SpecSection  the isolation of the legal reasoning in parseCsmHtml       *)
(* SpecImport   handleImportJson (src/unnamed/part_006, part_008)          *)
(* SpecBulk     handleBulkCapture and the manual capture of a pending url  *)
(***************************************************************************)
EXTENDS Integers, Sequences, FiniteSets, TLC

VARIABLES
    native,      \* StorageService after showDirectoryPicker succeeded
    virtual,     \* StorageService after the fallback to IndexedDB
    now,         \* Date.now()
    lastOp,      \* history: the last StorageService call, with its arguments
    prevOp,      \* history: the call before lastOp
    savedIds,    \* history: ids for which saveProcessedAcordao completed
    rawLog,      \* history: name -> content of the latest saveRawTxt, while not deleted
    nOps,        \* history: number of StorageService calls made
    svc,                   \* the StorageService singleton the App talks to
    isFolderSelected,      \* useState(false)
    capturedText,          \* useState<string | null>(null)
    lastProcessedContent,  \* useRef<string>('')
    browserUrl,            \* useState('https://jurisprudencia.csm.org.pt/')
    isLoading,             \* useState(false)
    isAutoProcessing,      \* useRef<boolean>(false)
    acordaos,              \* useState<Acordao[]>([])
    pendingFiles,          \* useState<number>(0)
    clipboard,             \* navigator.clipboard, written by the user
    auto,                  \* the running autoProcessFiles invocations
    cc,                    \* the running confirmCapture / handleConfirmCapture
    fc,                    \* handleClipboardCheck calls awaiting readText()
    refreshing,            \* refreshData calls awaiting listProcessedAcordaos()
    hist,                  \* history of the App: what the claims observe
    job,                   \* the running handleImportJson / handleBulkCapture
    pendingUrl             \* useState<string | null>(null)

storeVars == <<native, virtual, lastOp, prevOp, savedIds, rawLog, nOps>>
appVars == <<svc, isFolderSelected, capturedText, lastProcessedContent, browserUrl,
             isLoading, isAutoProcessing, acordaos, pendingFiles, clipboard,
             auto, cc, fc, refreshing, hist>>
batchVars == <<job, pendingUrl>>
vars == <<native, virtual, now, lastOp, prevOp, savedIds, rawLog, nOps,
          svc, isFolderSelected, capturedText, lastProcessedContent, browserUrl,
          isLoading, isAutoProcessing, acordaos, pendingFiles, clipboard,
          auto, cc, fc, refreshing, hist, job, pendingUrl>>

(***************************************************************************)
(* Bounds                                                                  *)
(***************************************************************************)
MaxOps == 4
MaxClock == 2

(***************************************************************************)
(* String helpers (JavaScript String methods on sequences of characters)   *)
(***************************************************************************)
NULL == [null |-> TRUE]

Min(a, b) == IF a < b THEN a ELSE b

\* String.prototype.startsWith
StartsWith(s, pre) ==
    /\ Len(pre) <= Len(s)
    /\ SubSeq(s, 1, Len(pre)) = pre

\* String.prototype.endsWith
EndsWith(s, suf) ==
    /\ Len(suf) <= Len(s)
    /\ SubSeq(s, Len(s) - Len(suf) + 1, Len(s)) = suf

\* String.prototype.indexOf, 1-based; 0 when sub does not occur
IndexOf(s, sub) ==
    LET hits == {i \in 1..(Len(s) - Len(sub) + 1) : SubSeq(s, i, i + Len(sub) - 1) = sub}
    IN IF hits = {} THEN 0 ELSE CHOOSE i \in hits : \A j \in hits : i <= j

\* String.prototype.replace(sub, rep) with a string pattern: the FIRST occurrence only
ReplaceFirst(s, sub, rep) ==
    LET i == IndexOf(s, sub)
    IN IF i = 0 THEN s
       ELSE SubSeq(s, 1, i - 1) \o rep \o SubSeq(s, i + Len(sub), Len(s))

\* String.prototype.replace(/[set]/g, rep): every character of the class
ReplaceChars(s, set, rep) == [i \in 1..Len(s) |-> IF s[i] \in set THEN rep ELSE s[i]]

\* String.prototype.substring(0, n)
Substring0(s, n) == SubSeq(s, 1, Min(Len(s), n))

TxtExt == <<".", "t", "x", "t">>
JsonExt == <<".", "j", "s", "o", "n">>

\* the character class /[:/\\?%*|"<>]/ of saveProcessedAcordao
UnsafeChars == {":", "/", "\\", "?", "%", "*", "|", "\"", "<", ">"}

SafeNameMax == 100

\* JavaScript truthiness of a string
Truthy(s) == s # <<>>

(***************************************************************************)
(* Values                                                                  *)
(***************************************************************************)
\* the 'Desconhecido' sentinel of parseCsmHtml
Desconhecido == <<"D", "e", "s", "c", "o", "n", "h", "e", "c", "i", "d", "o">>

\* JSON.stringify(value, null, 2): the text of a .json file
JSONstringify(value) == [kind |-> "json", value |-> value]

\* JSON.parse(text): does the text parse, and to what
JSONparses(text) == text.kind = "json"
JSONparse(text) == text.value

\* a text (clipboard content, the text of a .txt file, the content of a raw_files
\* entry): its leading characters, its length, the keywords it includes, what
\* the content rules of parseCsmHtml resolve in it, and whether a resolution
\* step throws on it
Text(chars, length, words, ecli, processo, texto, throws) ==
    [chars |-> chars, length |-> length, words |-> words, ecli |-> ecli,
     processo |-> processo, texto |-> texto, throws |-> throws, kind |-> "text"]

\* the empty string ''
EmptyText == Text(<<>>, 0, {}, <<>>, <<>>, "", FALSE)

\* an Acordao (types.ts); texto stands for the fields the store never inspects
Acordao(id, ecli, processo, texto, url) ==
    [id |-> id, ecli |-> ecli, processo |-> processo, texto |-> texto, url |-> url]

(***************************************************************************)
(* IndexedDB object stores and directory handles as keyed collections      *)
(***************************************************************************)
\* IDBObjectStore.put / getFileHandle(create) + write: insert or overwrite under key
Put(f, key, value) == [k \in (DOMAIN f) \cup {key} |-> IF k = key THEN value ELSE f[k]]

\* IDBObjectStore.delete / removeEntry: drop the key when present
Remove(f, key) == [k \in (DOMAIN f) \ {key} |-> f[k]]

\* IDBObjectStore.getAll / the entries of a directory, as a set
Values(f) == {f[k] : k \in DOMAIN f}

EmptyMap == [k \in {} |-> NULL]

(***************************************************************************)
(* StorageService (src/services/storageService.ts)                         *)
(***************************************************************************)
\* the static fields, with the directory and the database they point to
NativeService ==
    [rootHandle |-> TRUE, isFallbackMode |-> FALSE, db |-> FALSE,
     dir |-> EmptyMap, acordaos |-> EmptyMap, raw_files |-> EmptyMap]

VirtualService ==
    [rootHandle |-> FALSE, isFallbackMode |-> TRUE, db |-> TRUE,
     dir |-> EmptyMap, acordaos |-> EmptyMap, raw_files |-> EmptyMap]

isReady(s) == s.rootHandle \/ s.isFallbackMode

\* what `await window.showDirectoryPicker(...)` does: it resolves with a handle,
\* or throws (permission denied, insecure or cross-origin context, the function
\* missing from the browser, the user closing the picker)
Granted == "granted"
PickerOutcomes ==
    {Granted, "NotAllowedError", "SecurityError", "cross origin", "TypeError", "AbortError"}

\* a settled promise of selectDirectory
Fulfilled(success, mode) == [settled |-> "fulfilled", success |-> success, mode |-> mode]
Rejected == [settled |-> "rejected"]

\* StorageService.initDB: does the promise resolve; the database opened once is
\* kept in this.db, otherwise indexedDB.open succeeds (opens) or fires onerror
initDB(s, opens) == s.db \/ opens

\* StorageService.selectDirectory: the static fields after the call
selectDirectory(s, picker, opens) ==
    IF picker = Granted THEN [s EXCEPT !.rootHandle = TRUE, !.isFallbackMode = FALSE]
    ELSE IF initDB(s, opens) THEN [s EXCEPT !.db = TRUE, !.isFallbackMode = TRUE]
    ELSE s

\* StorageService.selectDirectory: the promise it returns; `await this.initDB()`
\* stands in the catch block, so its rejection is the rejection of the call
selectDirectoryResult(s, picker, opens) ==
    IF picker = Granted THEN Fulfilled(TRUE, "native")
    ELSE IF initDB(s, opens) THEN Fulfilled(TRUE, "virtual")
    ELSE Rejected

\* err.name === 'SecurityError' || err.name === 'NotAllowedError' ||
\* err.message.includes('cross origin')
IsSecurityError(picker) == picker \in {"SecurityError", "NotAllowedError", "cross origin"}

\* selectDirectory of the earlier StorageService: the fallback is taken for
\* security errors only
selectDirectoryOnSecurityError(s, picker, opens) ==
    IF picker = Granted THEN [s EXCEPT !.rootHandle = TRUE, !.isFallbackMode = FALSE]
    ELSE IF IsSecurityError(picker) /\ initDB(s, opens)
    THEN [s EXCEPT !.db = TRUE, !.isFallbackMode = TRUE]
    ELSE s

selectDirectoryOnSecurityErrorResult(s, picker, opens) ==
    IF picker = Granted THEN Fulfilled(TRUE, "native")
    ELSE IF IsSecurityError(picker)
    THEN IF initDB(s, opens) THEN Fulfilled(TRUE, "virtual") ELSE Rejected
    ELSE Fulfilled(FALSE, "virtual")

saveRawTxt(s, name, content, ts) ==
    IF s.isFallbackMode
    THEN [s EXCEPT !.raw_files =
              Put(@, name, [name |-> name, content |-> content, timestamp |-> ts])]
    ELSE IF ~s.rootHandle THEN s
    ELSE [s EXCEPT !.dir = Put(@, name \o TxtExt, content)]

listRawFiles(s) ==
    IF s.isFallbackMode THEN Values(s.raw_files)
    ELSE IF ~s.rootHandle THEN {}
    ELSE {[name |-> ReplaceFirst(f, TxtExt, <<>>), content |-> s.dir[f]] :
              f \in {g \in DOMAIN s.dir : EndsWith(g, TxtExt)}}

\* listRawFiles of the earlier StorageService: the entry name keeps its extension
listRawFilesScan(s) ==
    IF s.isFallbackMode THEN Values(s.raw_files)
    ELSE IF ~s.rootHandle THEN {}
    ELSE {[name |-> f, content |-> s.dir[f]] :
              f \in {g \in DOMAIN s.dir : EndsWith(g, TxtExt)}}

safeName(acordao) == Substring0(ReplaceChars(acordao.ecli, UnsafeChars, "_"), SafeNameMax)

saveProcessedAcordao(s, acordao) ==
    IF s.isFallbackMode
    THEN [s EXCEPT !.acordaos = Put(@, acordao.id, acordao)]
    ELSE IF ~s.rootHandle THEN s
    ELSE [s EXCEPT !.dir = Put(@, safeName(acordao) \o JsonExt, JSONstringify(acordao))]

\* a listing that keeps only the files with an ecli
listProcessedAcordaosEcliOnly(s) ==
    IF s.isFallbackMode THEN Values(s.acordaos)
    ELSE IF ~s.rootHandle THEN {}
    ELSE {JSONparse(s.dir[f]) :
              f \in {g \in DOMAIN s.dir :
                        /\ EndsWith(g, JsonExt)
                        /\ JSONparses(s.dir[g])
                        /\ Truthy(JSONparse(s.dir[g]).ecli)}}

\* a listing that gives up (returns nothing) when a file does not parse
listProcessedAcordaosFailFast(s) ==
    IF s.isFallbackMode THEN Values(s.acordaos)
    ELSE IF ~s.rootHandle THEN {}
    ELSE IF \E g \in DOMAIN s.dir : EndsWith(g, JsonExt) /\ ~JSONparses(s.dir[g]) THEN {}
    ELSE {JSONparse(s.dir[f]) :
              f \in {g \in DOMAIN s.dir :
                        /\ EndsWith(g, JsonExt)
                        /\ \/ Truthy(JSONparse(s.dir[g]).ecli)
                           \/ Truthy(JSONparse(s.dir[g]).processo)}}

listProcessedAcordaos(s) ==
    IF s.isFallbackMode THEN Values(s.acordaos)
    ELSE IF ~s.rootHandle THEN {}
    ELSE {JSONparse(s.dir[f]) :
              f \in {g \in DOMAIN s.dir :
                        /\ EndsWith(g, JsonExt)
                        /\ JSONparses(s.dir[g])
                        /\ \/ Truthy(JSONparse(s.dir[g]).ecli)
                           \/ Truthy(JSONparse(s.dir[g]).processo)}}

\* a deletion that empties the raw captures
deleteRawFileAll(s, name) ==
    IF s.isFallbackMode
    THEN [s EXCEPT !.raw_files = EmptyMap]
    ELSE IF ~s.rootHandle THEN s
    ELSE [s EXCEPT !.dir = [k \in {g \in DOMAIN @ : ~EndsWith(g, TxtExt)} |-> @[k]]]

deleteRawFile(s, name) ==
    IF s.isFallbackMode
    THEN [s EXCEPT !.raw_files = Remove(@, name)]
    ELSE IF ~s.rootHandle THEN s
    ELSE [s EXCEPT !.dir = Remove(@, name \o TxtExt)]

\* the declared element type of listRawFiles: {name, content}
RawEntry(e) == [name |-> e.name, content |-> e.content]
RawEntries(listing) == {RawEntry(e) : e \in listing}

(***************************************************************************)
(* parseCsmHtml (src/services/parserService.ts, the plain-text capable     *)
(* version): the identity rule                                             *)
(***************************************************************************)
\* Date.now() as a decimal string
Digits(n) == IF n = 0 THEN <<"0">> ELSE IF n = 1 THEN <<"1">> ELSE IF n = 2 THEN <<"2">>
             ELSE IF n = 3 THEN <<"3">> ELSE IF n = 4 THEN <<"4">> ELSE <<"5">>

\* url.split('/') and its last element
LastSegment(url) ==
    LET slashes == {i \in 1..Len(url) : url[i] = "/"}
        last == IF slashes = {} THEN 0 ELSE CHOOSE i \in slashes : \A k \in slashes : k <= i
    IN SubSeq(url, last + 1, Len(url))

EcliToken == <<"E", "C", "L", "I">>

\* a URL rule that replaces the first underscore only
ResolveEcliFirstUnderscore(contentEcli, url) ==
    IF contentEcli = Desconhecido /\ Truthy(url) /\ StartsWith(LastSegment(url), EcliToken)
    THEN ReplaceFirst(LastSegment(url), <<"_">>, <<":">>)
    ELSE contentEcli

\* the ecli after the URL rule: used only when the content rules resolved nothing
ResolveEcli(contentEcli, url) ==
    IF contentEcli = Desconhecido /\ Truthy(url) /\ StartsWith(LastSegment(url), EcliToken)
    THEN ReplaceChars(LastSegment(url), {"_"}, ":")
    ELSE contentEcli

\* the synthetic id `proc_${processo}_${Date.now()}`
SyntheticId(processo, ts) == <<"p", "r", "o", "c", "_">> \o processo \o <<"_">> \o Digits(ts)

\* id: ecli !== 'Desconhecido' ? ecli : `proc_${processo}_${Date.now()}`
AssignId(ecli, processo, ts) ==
    IF ecli # Desconhecido THEN ecli ELSE SyntheticId(processo, ts)

parseCsmHtml(content, url, ts) ==
    IF content.throws
    THEN [success |-> FALSE, error |-> "message"]
    ELSE LET ecli == ResolveEcli(content.ecli, url)
         IN [success |-> TRUE,
             data |-> Acordao(AssignId(ecli, content.processo, ts), ecli,
                              content.processo, content.texto, url)]

(***************************************************************************)
(* Inputs                                                                  *)
(***************************************************************************)
Ecli1 == <<"E", "C", "L", "I", ":", "1", ":", "5">>
Ecli1u == <<"E", "C", "L", "I", ":", "1", "_", "5">>
Ecli2 == <<"E", "C", "L", "I", ":", "2">>
Proc1 == <<"7", "/", "2", "0">>

PortalUrl ==
    <<"h", "t", "t", "p", "s", ":", "/", "/", "j", "u", "r", "i", "s", "p", "r", "u", "d",
      "e", "n", "c", "i", "a", ".", "c", "s", "m", ".", "o", "r", "g", ".", "p", "t", "/">>

\* a copied decision with an ECLI line, one without, and one a rule throws on
DocEcli == Text(<<"A">>, 2500, {"Processo", "Relator", "ECLI:"}, Ecli1, Proc1, "t1", FALSE)
DocNoEcli == Text(<<"S">>, 2600, {"Processo"}, Desconhecido, Proc1, "t2", FALSE)
DocThrows == Text(<<"X">>, 2700, {"Relator"}, Desconhecido, Desconhecido, "t3", TRUE)
\* a copied portal address, and a short note
UrlText == Text(PortalUrl \o <<"E", "C", "L", "I", "_", "2">>, 40, {}, Desconhecido,
                Desconhecido, "", FALSE)
NoteText == Text(<<"o", "k">>, 2, {}, Desconhecido, Desconhecido, "", FALSE)

\* the captured documents the store is driven with
Contents == {DocEcli, DocNoEcli}

\* the records autoProcessFiles and confirmCapture hand to saveProcessedAcordao
\* at millisecond ts: what parseCsmHtml extracts from a captured document
Extracted(ts) == {parseCsmHtml(content, PortalUrl, ts).data : content \in Contents}

\* the records handleImportJson hands to saveProcessedAcordao: items of a JSON
\* file, whose id and ecli are independent, with an ecli or a processo
Imported ==
    {Acordao(Ecli1, Ecli1, Proc1, "t2", PortalUrl),
     Acordao(Ecli1u, Ecli1u, Proc1, "t1", PortalUrl),
     Acordao(Ecli1, Ecli2, Proc1, "t1", PortalUrl),
     Acordao(<<"y">>, <<>>, Proc1, "t1", PortalUrl)}

\* the records the callers hand to saveProcessedAcordao at millisecond ts
Records(ts) == Extracted(ts) \cup Imported

RawNames == {<<"c", "1">>, <<"c", "2">>}


(***************************************************************************)
(* The App before a folder is selected                                     *)
(***************************************************************************)
NoService ==
    [rootHandle |-> FALSE, isFallbackMode |-> FALSE, db |-> FALSE,
     dir |-> EmptyMap, acordaos |-> EmptyMap, raw_files |-> EmptyMap]

IdleAuto == [pc |-> "idle", raw |-> <<>>, i |-> 0, rec |-> NULL]
IdleConfirm ==
    [pc |-> "idle", text |-> NULL, url |-> <<>>, fileName |-> <<>>, ts |-> 0, rec |-> NULL]

MaxAuto == 2

NoHistory ==
    [prevRead |-> NULL, repeat |-> FALSE, early |-> FALSE, returned |-> {},
     savedFrom |-> {}]

\* no import and no bulk capture is running
NoJob == [pc |-> "idle"]

AppIdle ==
    /\ job = NoJob
    /\ pendingUrl = NULL
    /\ svc = NoService
    /\ isFolderSelected = FALSE
    /\ capturedText = NULL
    /\ lastProcessedContent = EmptyText
    /\ browserUrl = PortalUrl
    /\ isLoading = FALSE
    /\ isAutoProcessing = FALSE
    /\ acordaos = {}
    /\ pendingFiles = 0
    /\ clipboard = EmptyText
    /\ auto = [j \in 1..MaxAuto |-> IdleAuto]
    /\ cc = IdleConfirm
    /\ fc = 0
    /\ refreshing = 0
    /\ hist = NoHistory

(***************************************************************************)
(* The store driven through both backends by one sequence of calls         *)
(***************************************************************************)
NoOp == [op |-> "none"]

StoreInit ==
    /\ native = NativeService
    /\ virtual = VirtualService
    /\ now = 1
    /\ lastOp = NoOp
    /\ prevOp = NoOp
    /\ savedIds = {}
    /\ rawLog = EmptyMap
    /\ nOps = 0
    /\ AppIdle

Called(op) ==
    /\ nOps < MaxOps
    /\ nOps' = nOps + 1
    /\ lastOp' = op
    /\ prevOp' = lastOp

CallSaveRawTxt ==
    \E name \in RawNames, content \in Contents :
        /\ Called([op |-> "saveRawTxt", name |-> name, content |-> content])
        /\ native' = saveRawTxt(native, name, content, now)
        /\ virtual' = saveRawTxt(virtual, name, content, now)
        /\ rawLog' = Put(rawLog, name, content)
        /\ UNCHANGED <<now, savedIds>>
        /\ UNCHANGED <<appVars, batchVars>>

CallDeleteRawFile ==
    \E name \in RawNames :
        /\ Called([op |-> "deleteRawFile", name |-> name])
        /\ native' = deleteRawFile(native, name)
        /\ virtual' = deleteRawFile(virtual, name)
        /\ rawLog' = Remove(rawLog, name)
        /\ UNCHANGED <<now, savedIds>>
        /\ UNCHANGED <<appVars, batchVars>>

CallSaveProcessedAcordao ==
    \E acordao \in Records(now) :
        /\ Called([op |-> "saveProcessedAcordao", acordao |-> acordao])
        /\ native' = saveProcessedAcordao(native, acordao)
        /\ virtual' = saveProcessedAcordao(virtual, acordao)
        /\ savedIds' = savedIds \cup {acordao.id}
        /\ UNCHANGED <<now, rawLog>>
        /\ UNCHANGED <<appVars, batchVars>>

Tick ==
    /\ now < MaxClock
    /\ now' = now + 1
    /\ UNCHANGED <<storeVars, batchVars>>
    /\ UNCHANGED <<appVars, batchVars>>

\* the calls the App makes
StoreNext ==
    \/ CallSaveRawTxt
    \/ CallDeleteRawFile
    \/ CallSaveProcessedAcordao
    \/ Tick

SpecStore == StoreInit /\ [][StoreNext]_vars

(***************************************************************************)
(* The App with background ingestion: autoProcessFiles, refreshData,       *)
(* handleClipboardCheck, confirmCapture, handleActivateFolder.  One action *)
(* is the code that runs between two awaits.                               *)
(***************************************************************************)
MaxFocus == 1
MaxRefresh == 1

\* what the user copies: a decision, a text the extractor fails on, a portal
\* address, a note
ClipboardTexts == {DocEcli, DocThrows, UrlText, NoteText}
CapturedTexts == {DocEcli, DocThrows, UrlText}

\* a result of listRawFiles as an array: the order is the backend's
Orderings(S) ==
    {seq \in [1..Cardinality(S) -> S] :
        \A a, b \in 1..Cardinality(S) : a # b => seq[a] # seq[b]}

\* `https://jurisprudencia.csm.org.pt/${file.name}`
FileUrl(file) == PortalUrl \o file.name

\* the for loop of autoProcessFiles from index i on: the first file whose
\* extraction succeeds (its record is saved next), or Len(raw)+1
RECURSIVE NextExtractable(_, _, _)
NextExtractable(raw, i, ts) ==
    IF i > Len(raw) THEN i
    ELSE IF parseCsmHtml(raw[i].content, FileUrl(raw[i]), ts).success THEN i
    ELSE NextExtractable(raw, i + 1, ts)

\* autoProcessFiles at loop index i: awaiting the save of file i, or past the loop
AutoAt(raw, i, ts) ==
    LET k == NextExtractable(raw, i, ts)
    IN IF k > Len(raw)
       THEN [pc |-> "final", raw |-> raw, i |-> k, rec |-> NULL]
       ELSE [pc |-> "saving", raw |-> raw, i |-> k,
             rec |-> parseCsmHtml(raw[k].content, FileUrl(raw[k]), ts).data]

\* Date.now(): the millisecond read, the same as at the last read or a later one
DateNow == {t \in {now, now + 1} : t <= MaxClock}

\* the guard of autoProcessFiles
AutoGuard(flag, ready) == ~flag /\ ready

\* a loop that deletes the raw capture whether or not the save succeeded
DeleteAlways(saved) == TRUE

\* `await saveProcessedAcordao(...)` throws on failure, so the `await
\* deleteRawFile(...)` after it runs only when the record was saved
DeleteAfterSave(saved) == saved

IdleSlots == {j \in 1..MaxAuto : auto[j].pc = "idle"}
FirstIdle == CHOOSE j \in IdleSlots : \A k \in IdleSlots : j <= k

\* a call of autoProcessFiles up to its first await
autoProcessFiles ==
    IF AutoGuard(isAutoProcessing, isReady(svc))
    THEN [auto EXCEPT ![FirstIdle].pc = "listing"]
    ELSE auto

\* the model holds MaxAuto invocations at a time
AutoRoom == AutoGuard(isAutoProcessing, isReady(svc)) => IdleSlots # {}

TimerFires ==
    /\ AutoRoom
    /\ auto' = autoProcessFiles
    /\ UNCHANGED <<svc, isFolderSelected, capturedText, lastProcessedContent, browserUrl,
                   isLoading, isAutoProcessing, acordaos, pendingFiles, clipboard, cc, fc,
                   refreshing, hist, now>>
    /\ UNCHANGED <<storeVars, batchVars>>

AutoListed(j) ==
    /\ auto[j].pc = "listing"
    /\ \E raw \in Orderings(listRawFiles(svc)) :
          IF Len(raw) = 0
          THEN /\ pendingFiles' = 0
               /\ auto' = [auto EXCEPT ![j] = IdleAuto]
               /\ UNCHANGED <<isAutoProcessing, now>>
          ELSE /\ isAutoProcessing' = TRUE
               /\ pendingFiles' = Len(raw)
               /\ now' \in DateNow
               /\ auto' = [auto EXCEPT ![j] = AutoAt(raw, 1, now')]
    /\ UNCHANGED <<svc, isFolderSelected, capturedText, lastProcessedContent, browserUrl,
                   isLoading, acordaos, clipboard, cc, fc, refreshing, hist>>
    /\ UNCHANGED <<storeVars, batchVars>>

AutoSaved(j) ==
    /\ auto[j].pc = "saving"
    /\ \E ok \in BOOLEAN :
          /\ svc' = IF ok THEN saveProcessedAcordao(svc, auto[j].rec) ELSE svc
          /\ hist' = IF ok
                     THEN [hist EXCEPT !.savedFrom = @ \cup {RawEntry(auto[j].raw[auto[j].i])}]
                     ELSE hist
          /\ IF DeleteAfterSave(ok)
             THEN /\ auto' = [auto EXCEPT ![j].pc = "deleting"]
                  /\ UNCHANGED now
             ELSE /\ now' \in DateNow
                  /\ auto' = [auto EXCEPT ![j] = AutoAt(auto[j].raw, auto[j].i + 1, now')]
    /\ UNCHANGED <<isFolderSelected, capturedText, lastProcessedContent, browserUrl,
                   isLoading, isAutoProcessing, acordaos, pendingFiles, clipboard, cc, fc,
                   refreshing>>
    /\ UNCHANGED <<storeVars, batchVars>>

AutoDeleted(j) ==
    /\ auto[j].pc = "deleting"
    /\ svc' = deleteRawFile(svc, auto[j].raw[auto[j].i].name)
    /\ now' \in DateNow
    /\ auto' = [auto EXCEPT ![j] = AutoAt(auto[j].raw, auto[j].i + 1, now')]
    /\ UNCHANGED <<isFolderSelected, capturedText, lastProcessedContent, browserUrl,
                   isLoading, isAutoProcessing, acordaos, pendingFiles, clipboard, cc, fc,
                   refreshing, hist>>
    /\ UNCHANGED <<storeVars, batchVars>>

\* `await listProcessedAcordaos()` after the loop settled: the three lines
\* after it run when it resolved; when it rejected autoProcessFiles ends there,
\* there is no try around it
AutoFinal(j) ==
    /\ auto[j].pc = "final"
    /\ \E ok \in BOOLEAN :
          IF ok
          THEN /\ acordaos' = listProcessedAcordaos(svc)
               /\ pendingFiles' = 0
               /\ isAutoProcessing' = FALSE
          ELSE UNCHANGED <<acordaos, pendingFiles, isAutoProcessing>>
    /\ auto' = [auto EXCEPT ![j] = IdleAuto]
    /\ UNCHANGED <<svc, isFolderSelected, capturedText, lastProcessedContent, browserUrl,
                   isLoading, clipboard, cc, fc, refreshing, hist, now>>
    /\ UNCHANGED <<storeVars, batchVars>>

\* refreshData called and not awaited by its caller (the refresh button,
\* handleActivateFolder): it awaits listProcessedAcordaos
RefreshButton ==
    /\ isReady(svc)
    /\ refreshing < MaxRefresh
    /\ refreshing' = refreshing + 1
    /\ UNCHANGED <<svc, isFolderSelected, capturedText, lastProcessedContent, browserUrl,
                   isLoading, isAutoProcessing, acordaos, pendingFiles, clipboard, auto, cc,
                   fc, hist, now>>
    /\ UNCHANGED <<storeVars, batchVars>>

RefreshDataListed ==
    /\ refreshing > 0
    /\ AutoRoom
    /\ refreshing' = refreshing - 1
    /\ acordaos' = listProcessedAcordaos(svc)
    /\ auto' = autoProcessFiles
    /\ UNCHANGED <<svc, isFolderSelected, capturedText, lastProcessedContent, browserUrl,
                   isLoading, isAutoProcessing, pendingFiles, clipboard, cc, fc, hist, now>>
    /\ UNCHANGED <<storeVars, batchVars>>

HandleActivateFolder ==
    /\ ~isFolderSelected
    /\ \E picker \in PickerOutcomes, opens \in BOOLEAN :
          LET result == selectDirectoryResult(svc, picker, opens)
          IN /\ svc' = selectDirectory(svc, picker, opens)
             /\ IF result.settled = "fulfilled" /\ result.success
                THEN /\ isFolderSelected' = TRUE
                     /\ refreshing' = refreshing + 1
                ELSE UNCHANGED <<isFolderSelected, refreshing>>
    /\ UNCHANGED <<capturedText, lastProcessedContent, browserUrl, isLoading,
                   isAutoProcessing, acordaos, pendingFiles, clipboard, auto, cc, fc, hist,
                   now>>
    /\ UNCHANGED <<storeVars, batchVars>>

\* the user copies something
CopyText(texts) ==
    /\ \E text \in texts : text # clipboard /\ clipboard' = text
    /\ UNCHANGED <<svc, isFolderSelected, capturedText, lastProcessedContent, browserUrl,
                   isLoading, isAutoProcessing, acordaos, pendingFiles, auto, cc, fc,
                   refreshing, hist, now>>
    /\ UNCHANGED <<storeVars, batchVars>>

\* text.startsWith('https://jurisprudencia.csm.org.pt/')
IsPortalUrl(text) == StartsWith(text.chars, PortalUrl)

\* text.length > 2000 && (includes 'Acordao' || 'Processo' || 'Relator')
MinCaptureLength == 2000
LooksLikeAcordao(text) ==
    /\ text.length > MinCaptureLength
    /\ text.words \cap {"Acordao", "Processo", "Relator"} # {}

\* a check that forgets the last processed text
IgnoredTextNoDedup(text, last) == text.length = 0

\* !text || text === lastProcessedContent.current
IgnoredText(text, last) == text.length = 0 \/ text = last

\* the focus event: handleClipboardCheck up to `await readText()`
FocusEvent ==
    /\ isFolderSelected /\ ~isLoading /\ capturedText = NULL
    /\ fc < MaxFocus
    /\ fc' = fc + 1
    /\ UNCHANGED <<svc, isFolderSelected, capturedText, lastProcessedContent, browserUrl,
                   isLoading, isAutoProcessing, acordaos, pendingFiles, clipboard, auto, cc,
                   refreshing, hist, now>>
    /\ UNCHANGED <<storeVars, batchVars>>

\* handleClipboardCheck after readText() resolved
ClipboardRead ==
    /\ fc > 0
    /\ fc' = fc - 1
    /\ LET text == clipboard
           seen == [hist EXCEPT !.prevRead = text, !.repeat = (text = hist.prevRead)]
       IN IF IgnoredText(text, lastProcessedContent)
          THEN /\ hist' = seen
               /\ UNCHANGED <<browserUrl, lastProcessedContent, capturedText>>
          ELSE IF IsPortalUrl(text)
          THEN /\ browserUrl' = text.chars
               /\ lastProcessedContent' = text
               /\ hist' = seen
               /\ UNCHANGED capturedText
          ELSE IF LooksLikeAcordao(text)
          THEN /\ lastProcessedContent' = text
               /\ capturedText' = text
               /\ hist' = seen
               /\ UNCHANGED browserUrl
          ELSE /\ hist' = seen
               /\ UNCHANGED <<browserUrl, lastProcessedContent, capturedText>>
    /\ UNCHANGED <<svc, isFolderSelected, isLoading, isAutoProcessing, acordaos,
                   pendingFiles, clipboard, auto, cc, refreshing, now>>
    /\ UNCHANGED <<storeVars, batchVars>>

\* a dialog whose close button keeps the candidate among the raw captures
CancelCaptureKeepingDraft ==
    /\ capturedText # NULL
    /\ capturedText' = NULL
    /\ svc' = saveRawTxt(svc, <<"d", "r", "a", "f", "t">>, capturedText, now)
    /\ UNCHANGED <<isFolderSelected, lastProcessedContent, browserUrl, isLoading,
                   isAutoProcessing, acordaos, pendingFiles, clipboard, auto, cc, fc,
                   refreshing, hist, now>>
    /\ UNCHANGED <<storeVars, batchVars>>

\* a dialog whose close button also forgets the candidate it showed
CancelCaptureForgetting ==
    /\ capturedText # NULL
    /\ capturedText' = NULL
    /\ lastProcessedContent' = EmptyText
    /\ UNCHANGED <<svc, isFolderSelected, browserUrl, isLoading, isAutoProcessing, acordaos,
                   pendingFiles, clipboard, auto, cc, fc, refreshing, hist, now>>
    /\ UNCHANGED <<storeVars, batchVars>>

\* the close button and "Ignorar": setCapturedText(null)
CancelCapture ==
    /\ capturedText # NULL
    /\ capturedText' = NULL
    /\ UNCHANGED <<svc, isFolderSelected, lastProcessedContent, browserUrl, isLoading,
                   isAutoProcessing, acordaos, pendingFiles, clipboard, auto, cc, fc,
                   refreshing, hist, now>>
    /\ UNCHANGED <<storeVars, batchVars>>

\* `captura_${timestamp}`
CaptureName(ts) == <<"c", "a", "p", "t", "u", "r", "a", "_">> \o Digits(ts)

\* id: result.data.id || `ID_${timestamp}`
CaptureId(id, ts) == IF Truthy(id) THEN id ELSE <<"I", "D", "_">> \o Digits(ts)

\* confirmCapture up to `await saveRawTxt`; the click comes at a later
\* millisecond than everything before it
ConfirmStart ==
    /\ capturedText # NULL /\ ~isLoading
    /\ cc.pc = "idle"
    /\ now < MaxClock
    /\ now' = now + 1
    /\ isLoading' = TRUE
    /\ cc' = [pc |-> "savingRaw", text |-> capturedText, url |-> browserUrl,
              fileName |-> CaptureName(now'), ts |-> now', rec |-> NULL]
    /\ UNCHANGED <<svc, isFolderSelected, capturedText, lastProcessedContent, browserUrl,
                   isAutoProcessing, acordaos, pendingFiles, clipboard, auto, fc,
                   refreshing, hist>>
    /\ UNCHANGED <<storeVars, batchVars>>

\* saveRawTxt settled; on success the text is extracted and the record's save issued
ConfirmRawSaved ==
    /\ cc.pc = "savingRaw"
    /\ \E ok \in BOOLEAN, ts \in DateNow :
          LET result == parseCsmHtml(cc.text, cc.url, ts)
          IN IF ~ok
             THEN /\ isLoading' = FALSE
                  /\ cc' = IdleConfirm
                  /\ UNCHANGED <<svc, capturedText, now>>
             ELSE /\ svc' = saveRawTxt(svc, cc.fileName, cc.text, cc.ts)
                  /\ now' = ts
                  /\ IF result.success
                     THEN /\ cc' = [cc EXCEPT !.pc = "savingRec",
                                              !.rec = [result.data EXCEPT
                                                          !.id = CaptureId(@, cc.ts)]]
                          /\ UNCHANGED capturedText
                     ELSE /\ cc' = [cc EXCEPT !.pc = "refresh"]
                          /\ capturedText' = NULL
                  /\ UNCHANGED isLoading
    /\ UNCHANGED <<isFolderSelected, lastProcessedContent, browserUrl, isAutoProcessing,
                   acordaos, pendingFiles, clipboard, auto, fc, refreshing, hist>>
    /\ UNCHANGED <<storeVars, batchVars>>

ConfirmRecSaved ==
    /\ cc.pc = "savingRec"
    /\ \E ok \in BOOLEAN :
          /\ svc' = IF ok THEN saveProcessedAcordao(svc, cc.rec) ELSE svc
          /\ hist' = IF ok
                     THEN [hist EXCEPT !.savedFrom =
                              @ \cup {[name |-> cc.fileName, content |-> cc.text]}]
                     ELSE hist
          /\ IF DeleteAfterSave(ok)
             THEN /\ cc' = [cc EXCEPT !.pc = "deleting"]
                  /\ UNCHANGED isLoading
             ELSE /\ cc' = IdleConfirm
                  /\ isLoading' = FALSE
    /\ UNCHANGED <<isFolderSelected, capturedText, lastProcessedContent, browserUrl,
                   isAutoProcessing, acordaos, pendingFiles, clipboard, auto, fc,
                   refreshing, now>>
    /\ UNCHANGED <<storeVars, batchVars>>

ConfirmDeleted ==
    /\ cc.pc = "deleting"
    /\ svc' = deleteRawFile(svc, cc.fileName)
    /\ capturedText' = NULL
    /\ cc' = [cc EXCEPT !.pc = "refresh"]
    /\ UNCHANGED <<isFolderSelected, lastProcessedContent, browserUrl, isLoading,
                   isAutoProcessing, acordaos, pendingFiles, clipboard, auto, fc,
                   refreshing, hist, now>>
    /\ UNCHANGED <<storeVars, batchVars>>

\* `await refreshData()` settled, then the finally block
ConfirmRefreshed ==
    /\ cc.pc = "refresh"
    /\ AutoRoom
    /\ acordaos' = listProcessedAcordaos(svc)
    /\ auto' = autoProcessFiles
    /\ isLoading' = FALSE
    /\ cc' = IdleConfirm
    /\ UNCHANGED <<svc, isFolderSelected, capturedText, lastProcessedContent, browserUrl,
                   isAutoProcessing, pendingFiles, clipboard, fc, refreshing, hist, now>>
    /\ UNCHANGED <<storeVars, batchVars>>

AppInit ==
    /\ AppIdle
    /\ now = 1
    /\ native = NativeService
    /\ virtual = VirtualService
    /\ lastOp = NoOp
    /\ prevOp = NoOp
    /\ savedIds = {}
    /\ rawLog = EmptyMap
    /\ nOps = 0

AppNext ==
    \/ HandleActivateFolder
    \/ TimerFires
    \/ \E j \in 1..MaxAuto : AutoListed(j)
    \/ \E j \in 1..MaxAuto : AutoSaved(j)
    \/ \E j \in 1..MaxAuto : AutoDeleted(j)
    \/ \E j \in 1..MaxAuto : AutoFinal(j)
    \/ RefreshButton
    \/ RefreshDataListed
    \/ CopyText(ClipboardTexts)
    \/ FocusEvent
    \/ ClipboardRead
    \/ CancelCapture
    \/ ConfirmStart
    \/ ConfirmRawSaved
    \/ ConfirmRecSaved
    \/ ConfirmDeleted
    \/ ConfirmRefreshed

SpecApp == AppInit /\ [][AppNext]_vars

\* the App between two ticks of the timer and without the refresh button:
\* autoProcessFiles runs when refreshData calls it
ClipNext ==
    \/ HandleActivateFolder
    \/ \E j \in 1..MaxAuto : AutoListed(j)
    \/ \E j \in 1..MaxAuto : AutoSaved(j)
    \/ \E j \in 1..MaxAuto : AutoDeleted(j)
    \/ \E j \in 1..MaxAuto : AutoFinal(j)
    \/ RefreshDataListed
    \/ CopyText(CapturedTexts)
    \/ FocusEvent
    \/ ClipboardRead
    \/ CancelCapture
    \/ ConfirmStart
    \/ ConfirmRawSaved
    \/ ConfirmRecSaved
    \/ ConfirmDeleted
    \/ ConfirmRefreshed

SpecClip == AppInit /\ [][ClipNext]_vars

(***************************************************************************)
(* The App with the confirmation dialog only (src/App.tsx, first           *)
(* component): handleClipboardCheck, handleConfirmCapture, refreshData,    *)
(* handleActivateFolder.                                                   *)
(***************************************************************************)
\* handleActivateFolder, then the refreshData it starts
ActivateFolder ==
    /\ ~isFolderSelected
    /\ \E picker \in PickerOutcomes, opens \in BOOLEAN :
          LET result == selectDirectoryResult(svc, picker, opens)
          IN /\ svc' = selectDirectory(svc, picker, opens)
             /\ IF result.settled = "fulfilled" /\ result.success
                THEN /\ isFolderSelected' = TRUE
                     /\ refreshing' = refreshing + 1
                ELSE UNCHANGED <<isFolderSelected, refreshing>>
    /\ UNCHANGED <<capturedText, lastProcessedContent, browserUrl, isLoading,
                   isAutoProcessing, acordaos, pendingFiles, clipboard, auto, cc, fc, hist,
                   now>>
    /\ UNCHANGED <<storeVars, batchVars>>

\* refreshData after `await listProcessedAcordaos()`
RefreshData ==
    /\ refreshing > 0
    /\ refreshing' = refreshing - 1
    /\ acordaos' = listProcessedAcordaos(svc)
    /\ UNCHANGED <<svc, isFolderSelected, capturedText, lastProcessedContent, browserUrl,
                   isLoading, isAutoProcessing, pendingFiles, clipboard, auto, cc, fc, hist,
                   now>>
    /\ UNCHANGED <<storeVars, batchVars>>

\* text.length < 1000
MinDialogLength == 1000

\* includes 'Acordao' || 'Processo' || 'Relator' || 'ECLI:'
LooksLikeDecision(text) ==
    text.words \cap {"Acordao", "Processo", "Relator", "ECLI:"} # {}

\* !text || text === lastProcessedContent.current || text.length < 1000
SkippedText(text, last) ==
    text.length = 0 \/ text = last \/ text.length < MinDialogLength

\* the focus event: handleClipboardCheck up to `await readText()`
DialogFocusEvent ==
    /\ isFolderSelected /\ capturedText = NULL
    /\ fc < MaxFocus
    /\ fc' = fc + 1
    /\ UNCHANGED <<svc, isFolderSelected, capturedText, lastProcessedContent, browserUrl,
                   isLoading, isAutoProcessing, acordaos, pendingFiles, clipboard, auto, cc,
                   refreshing, hist, now>>
    /\ UNCHANGED <<storeVars, batchVars>>

\* handleClipboardCheck after readText() resolved
DialogClipboardRead ==
    /\ fc > 0
    /\ fc' = fc - 1
    /\ LET text == clipboard
       IN /\ hist' = [hist EXCEPT !.prevRead = text, !.repeat = (text = hist.prevRead)]
          /\ IF ~SkippedText(text, lastProcessedContent) /\ LooksLikeDecision(text)
             THEN /\ lastProcessedContent' = text
                  /\ capturedText' = text
             ELSE UNCHANGED <<lastProcessedContent, capturedText>>
    /\ UNCHANGED <<svc, isFolderSelected, browserUrl, isLoading, isAutoProcessing, acordaos,
                   pendingFiles, clipboard, auto, cc, refreshing, now>>
    /\ UNCHANGED <<storeVars, batchVars>>

\* is the text stored as a raw capture
SavedAsRaw(s, text) == \E e \in listRawFiles(s) : e.content = text

\* fileName: result.data.processo?.replace(/\//g, '_') || `captura_${timestamp}`
DialogFileName(processo, ts) ==
    IF Truthy(processo) THEN ReplaceChars(processo, {"/"}, "_") ELSE CaptureName(ts)

\* id: result.data.id || `proc_${timestamp}`
DialogId(id, ts) == IF Truthy(id) THEN id ELSE <<"p", "r", "o", "c", "_">> \o Digits(ts)

\* handleConfirmCapture up to its first await: the text is extracted; a failed
\* extraction throws, and the catch and finally blocks end the handler
HandleConfirmCapture ==
    /\ capturedText # NULL /\ ~isLoading
    /\ cc.pc = "idle"
    /\ \E ts \in DateNow :
          LET result == parseCsmHtml(capturedText, browserUrl, ts)
          IN /\ now' = ts
             /\ IF result.success
                THEN /\ isLoading' = TRUE
                     /\ cc' = [pc |-> "savingRaw", text |-> capturedText, url |-> browserUrl,
                               fileName |-> DialogFileName(result.data.processo, ts),
                               ts |-> ts,
                               rec |-> [result.data EXCEPT !.id = DialogId(@, ts)]]
                     /\ hist' = [hist EXCEPT !.early = @ \/ ~SavedAsRaw(svc, capturedText)]
                ELSE /\ hist' = [hist EXCEPT !.early = @ \/ ~SavedAsRaw(svc, capturedText),
                                             !.returned = @ \cup {capturedText}]
                     /\ UNCHANGED <<isLoading, cc>>
    /\ UNCHANGED <<svc, isFolderSelected, capturedText, lastProcessedContent, browserUrl,
                   isAutoProcessing, acordaos, pendingFiles, clipboard, auto, fc,
                   refreshing>>
    /\ UNCHANGED <<storeVars, batchVars>>

\* `await saveRawTxt(acordaoData.fileName, capturedText)` settled
DialogRawSaved ==
    /\ cc.pc = "savingRaw"
    /\ \E ok \in BOOLEAN :
          IF ok
          THEN /\ svc' = saveRawTxt(svc, cc.fileName, cc.text, now)
               /\ cc' = [cc EXCEPT !.pc = "savingRec"]
               /\ UNCHANGED <<isLoading, hist>>
          ELSE /\ isLoading' = FALSE
               /\ cc' = IdleConfirm
               /\ hist' = [hist EXCEPT !.returned = @ \cup {cc.text}]
               /\ UNCHANGED svc
    /\ UNCHANGED <<isFolderSelected, capturedText, lastProcessedContent, browserUrl,
                   isAutoProcessing, acordaos, pendingFiles, clipboard, auto, fc,
                   refreshing, now>>
    /\ UNCHANGED <<storeVars, batchVars>>

\* `await saveProcessedAcordao(acordaoData)` settled
DialogRecSaved ==
    /\ cc.pc = "savingRec"
    /\ \E ok \in BOOLEAN :
          IF ok
          THEN /\ svc' = saveProcessedAcordao(svc, cc.rec)
               /\ capturedText' = NULL
               /\ cc' = [cc EXCEPT !.pc = "refresh"]
               /\ UNCHANGED <<isLoading, hist>>
          ELSE /\ isLoading' = FALSE
               /\ cc' = IdleConfirm
               /\ hist' = [hist EXCEPT !.returned = @ \cup {cc.text}]
               /\ UNCHANGED <<svc, capturedText>>
    /\ UNCHANGED <<isFolderSelected, lastProcessedContent, browserUrl, isAutoProcessing,
                   acordaos, pendingFiles, clipboard, auto, fc, refreshing, now>>
    /\ UNCHANGED <<storeVars, batchVars>>

\* `await refreshData()` settled, then the finally block
DialogRefreshed ==
    /\ cc.pc = "refresh"
    /\ acordaos' = listProcessedAcordaos(svc)
    /\ isLoading' = FALSE
    /\ cc' = IdleConfirm
    /\ hist' = [hist EXCEPT !.returned = @ \cup {cc.text}]
    /\ UNCHANGED <<svc, isFolderSelected, capturedText, lastProcessedContent, browserUrl,
                   isAutoProcessing, pendingFiles, clipboard, auto, fc, refreshing, now>>
    /\ UNCHANGED <<storeVars, batchVars>>

CaptureNext ==
    \/ ActivateFolder
    \/ RefreshData
    \/ CopyText(ClipboardTexts)
    \/ DialogFocusEvent
    \/ DialogClipboardRead
    \/ CancelCapture
    \/ HandleConfirmCapture
    \/ DialogRawSaved
    \/ DialogRecSaved
    \/ DialogRefreshed

SpecCapture == AppInit /\ [][CaptureNext]_vars

Backends == {native, virtual}

(***************************************************************************)
(* C1: the listings of the native backend equal, as sets of entries, the   *)
(* listings of the virtual backend driven by the same sequence of calls.   *)
(***************************************************************************)
C1_BackendsIndistinguishable ==
    /\ RawEntries(listRawFiles(native)) = RawEntries(listRawFiles(virtual))
    /\ listProcessedAcordaos(native) = listProcessedAcordaos(virtual)

(***************************************************************************)
(* C2: after two consecutive saveProcessedAcordao calls with records that  *)
(* share an id, each backend lists exactly one entry with that id, and it  *)
(* is the record of the second call.                                       *)
(***************************************************************************)
SavedTwiceSameId ==
    /\ lastOp.op = "saveProcessedAcordao"
    /\ prevOp.op = "saveProcessedAcordao"
    /\ lastOp.acordao.id = prevOp.acordao.id

WithId(listing, id) == {r \in listing : r.id = id}

C2_SecondSaveWins ==
    SavedTwiceSameId =>
        \A s \in Backends :
            WithId(listProcessedAcordaos(s), lastOp.acordao.id) = {lastOp.acordao}

(***************************************************************************)
(* C7: once saveProcessedAcordao has completed for a record with id x,     *)
(* every later listProcessedAcordaos of that backend holds a record with   *)
(* id x.                                                                   *)
(***************************************************************************)
C7_ProcessedNeverRemoved ==
    \A s \in Backends : \A x \in savedIds : WithId(listProcessedAcordaos(s), x) # {}

(***************************************************************************)
(* C8: after any sequence of ingestions each backend lists at most one     *)
(* record per ecli value.                                                  *)
(***************************************************************************)
C8_OneRecordPerEcli ==
    \A s \in Backends :
        \A r1, r2 \in listProcessedAcordaos(s) : r1.ecli = r2.ecli => r1 = r2

RawLogEntries == {[name |-> n, content |-> rawLog[n]] : n \in DOMAIN rawLog}

C10_RawUpsertByName ==
    \A s \in Backends :
        /\ RawEntries(listRawFiles(s)) = RawLogEntries
        /\ RawEntries(listRawFilesScan(s)) = RawLogEntries

(***************************************************************************)
(* C3: at most one invocation of autoProcessFiles is between its read of   *)
(* the raw-capture list and its completion.                                *)
(***************************************************************************)
PastListing == {j \in 1..MaxAuto : auto[j].pc \in {"saving", "deleting", "final"}}

C3_NoOverlappingPasses == Cardinality(PastListing) <= 1

(***************************************************************************)
(* C4: a trigger that reads the same clipboard text as the trigger before  *)
(* it leaves the orchestrator state and the store unchanged: the capture   *)
(* path the first of them started is not started again.                    *)
(***************************************************************************)
\* the step of handleClipboardCheck after readText(): the only one that
\* takes a pending read away
ReadsClipboard == fc' < fc

C4_Dedup ==
    [][(ReadsClipboard /\ clipboard = hist.prevRead) =>
           UNCHANGED <<svc, isFolderSelected, capturedText, lastProcessedContent,
                       browserUrl, isLoading, isAutoProcessing, acordaos, pendingFiles,
                       auto, cc, refreshing>>]_vars

\* a copied decision was read twice in a row: the first read opened the
\* capture dialog, which was closed before the second read
C4_Witness ==
    /\ hist.repeat
    /\ LooksLikeAcordao(hist.prevRead)
    /\ lastProcessedContent = hist.prevRead
    /\ capturedText = NULL

(***************************************************************************)
(* C5: the extractor is invoked on a captured text only after its raw      *)
(* capture was saved, and once the confirmation handler has returned the   *)
(* text is in the store as a raw capture or as the record extracted from   *)
(* it, also when the extraction failed.                                    *)
(***************************************************************************)
InStore(s, text) ==
    \/ SavedAsRaw(s, text)
    \/ \E r \in listProcessedAcordaos(s) : r.texto = text.texto

C5_DurableBeforeExtraction ==
    /\ ~hist.early
    /\ \A text \in hist.returned : InStore(svc, text)

(***************************************************************************)
(* C6: a raw capture stops being listed only after the record extracted    *)
(* from it was saved; after a failed extraction or a failed save it is     *)
(* still listed.                                                           *)
(***************************************************************************)
C6_DeletedOnlyAfterSave ==
    [][\A e \in RawEntries(listRawFiles(svc)) :
           e \notin RawEntries(listRawFiles(svc')) => e \in hist.savedFrom]_vars

\* a capture's record is listed and its raw capture is gone
C6_Witness ==
    /\ listProcessedAcordaos(svc) # {}
    /\ \E e \in hist.savedFrom : e \notin RawEntries(listRawFiles(svc))

\* a confirmed capture whose extraction or save failed is still listed as a
\* raw capture once confirmCapture has returned
C6_RetryWitness ==
    /\ cc.pc = "idle" /\ ~isLoading
    /\ listProcessedAcordaos(svc) = {}
    /\ \E e \in RawEntries(listRawFiles(svc)) : e \notin hist.savedFrom

(***************************************************************************)
(* StorageService called directly: one service, from before a backend is   *)
(* selected                                                                *)
(***************************************************************************)
ServiceCalled(op) ==
    /\ nOps < MaxOps
    /\ nOps' = nOps + 1
    /\ lastOp' = op
    /\ UNCHANGED <<native, virtual, now, prevOp, savedIds, rawLog>>
    /\ UNCHANGED <<isFolderSelected, capturedText, lastProcessedContent, browserUrl,
                   isLoading, isAutoProcessing, acordaos, pendingFiles, clipboard,
                   auto, cc, fc, refreshing, hist, batchVars>>

ServiceSelectDirectory ==
    \E picker \in PickerOutcomes, opens \in BOOLEAN :
        /\ ServiceCalled([op |-> "selectDirectory", picker |-> picker, opens |-> opens])
        /\ svc' = selectDirectory(svc, picker, opens)

\* a write of the selected backend may fail (transaction.onerror, a rejected
\* createWritable or write): the promise rejects and nothing is stored; with no
\* backend selected the method returns at `if (!this.rootHandle) return`
ServiceSaveRawTxt ==
    \E name \in RawNames, content \in Contents, ok \in BOOLEAN :
        LET settled == IF isReady(svc) /\ ~ok THEN "rejected" ELSE "fulfilled"
        IN /\ ServiceCalled([op |-> "saveRawTxt", name |-> name, content |-> content,
                             settled |-> settled])
           /\ svc' = IF settled = "rejected" THEN svc
                      ELSE saveRawTxt(svc, name, content, now)

ServiceSaveProcessedAcordao ==
    \E acordao \in Records(now), ok \in BOOLEAN :
        LET settled == IF isReady(svc) /\ ~ok THEN "rejected" ELSE "fulfilled"
        IN /\ ServiceCalled([op |-> "saveProcessedAcordao", acordao |-> acordao,
                             settled |-> settled])
           /\ svc' = IF settled = "rejected" THEN svc
                      ELSE saveProcessedAcordao(svc, acordao)

ServiceDeleteRawFile ==
    \E name \in RawNames :
        /\ ServiceCalled([op |-> "deleteRawFile", name |-> name])
        /\ svc' = deleteRawFile(svc, name)

\* the selected directory is a folder of the user's disk: a .json file that is
\* not a record of the application (its text is not JSON) appears in it
ForeignFile == <<"n", "o", "t", "e", "s">> \o JsonExt

ServiceForeignFile ==
    /\ svc.rootHandle
    /\ ServiceCalled([op |-> "foreignFile", name |-> ForeignFile])
    /\ svc' = [svc EXCEPT !.dir = Put(@, ForeignFile, NoteText)]

ServiceNext ==
    \/ ServiceSelectDirectory
    \/ ServiceSaveRawTxt
    \/ ServiceSaveProcessedAcordao
    \/ ServiceDeleteRawFile
    \/ ServiceForeignFile

SpecService == AppInit /\ [][ServiceNext]_vars

\* the step is a call of selectDirectory whose picker outcome is in outcomes
SelectsWith(outcomes) ==
    /\ nOps' = nOps + 1
    /\ lastOp'.op = "selectDirectory"
    /\ lastOp'.picker \in outcomes

\* the picker is denied (permission, insecure or cross-origin context) or
\* unavailable (window.showDirectoryPicker is not a function)
DeniedOrUnavailable == {"NotAllowedError", "SecurityError", "cross origin", "TypeError"}

\* C11: when direct-handle acquisition is denied or unavailable (and the
\* database opens), selectDirectory, in both versions of the service, returns
\* {success: true, mode: 'virtual'}, isReady() is true afterwards, and the
\* service is in fallback mode, so every later operation takes the virtual branch
C11_FallbackToVirtual ==
    [][(SelectsWith(DeniedOrUnavailable) /\ initDB(svc, lastOp'.opens)) =>
          /\ selectDirectoryResult(svc, lastOp'.picker, lastOp'.opens)
                = Fulfilled(TRUE, "virtual")
          /\ isReady(svc') /\ svc'.isFallbackMode
          /\ selectDirectoryOnSecurityErrorResult(svc, lastOp'.picker, lastOp'.opens)
                = Fulfilled(TRUE, "virtual")
          /\ LET after == selectDirectoryOnSecurityError(svc, lastOp'.picker, lastOp'.opens)
             IN isReady(after) /\ after.isFallbackMode]_vars

\* C12: when the picker is refused and the database cannot be opened,
\* selectDirectory fulfils with success false (it does not reject) and
\* isReady() is false afterwards
C12_InitFailureIsAResult ==
    [][(SelectsWith(PickerOutcomes \ {Granted}) /\ ~initDB(svc, lastOp'.opens)) =>
          LET result == selectDirectoryResult(svc, lastOp'.picker, lastOp'.opens)
          IN /\ result.settled = "fulfilled"
             /\ ~result.success
             /\ ~isReady(svc')]_vars

\* C19: listProcessedAcordaos enumerates the valid stored records whatever
\* unparseable entries the store holds: a .json file that does not parse,
\* appearing in the directory, leaves the enumeration as it was, and a record
\* saved to a selected backend is enumerated afterwards
C19_SkipsUnparseable ==
    [][(nOps' = nOps + 1) =>
          /\ (lastOp'.op = "foreignFile") =>
                 listProcessedAcordaos(svc') = listProcessedAcordaos(svc)
          /\ (/\ lastOp'.op = "saveProcessedAcordao"
              /\ isReady(svc)
              /\ lastOp'.settled = "fulfilled") =>
                 lastOp'.acordao \in listProcessedAcordaos(svc')]_vars

\* a record was saved to, and is enumerated from, a directory that holds an
\* unparseable .json file
C19_Witness ==
    /\ svc.rootHandle /\ ~svc.isFallbackMode
    /\ \E g \in DOMAIN svc.dir : EndsWith(g, JsonExt) /\ ~JSONparses(svc.dir[g])
    /\ lastOp.op = "saveProcessedAcordao" /\ lastOp.settled = "fulfilled"
    /\ lastOp.acordao \in listProcessedAcordaos(svc)

\* C20: deleteRawFile(name) leaves the processed records as they were and
\* removes from the raw captures the entry of that name and no other; when no
\* entry has that name the raw captures are unchanged
C20_DeleteOnlyThatEntry ==
    [][(nOps' = nOps + 1 /\ lastOp'.op = "deleteRawFile") =>
          /\ listProcessedAcordaos(svc') = listProcessedAcordaos(svc)
          /\ RawEntries(listRawFiles(svc')) =
                {e \in RawEntries(listRawFiles(svc)) : e.name # lastOp'.name}
          /\ (\A e \in listRawFiles(svc) : e.name # lastOp'.name) =>
                 listRawFiles(svc') = listRawFiles(svc)]_vars

\* deleteRawFile has run for a name that has no entry, while another raw
\* capture and a processed record are stored
C20_Witness ==
    /\ lastOp.op = "deleteRawFile"
    /\ \A e \in listRawFiles(svc) : e.name # lastOp.name
    /\ listRawFiles(svc) # {}
    /\ listProcessedAcordaos(svc) # {}

(***************************************************************************)
(* parseCsmHtml field by field (src/services/parserService.ts)             *)
(***************************************************************************)
Desconhecida == <<"D", "e", "s", "c", "o", "n", "h", "e", "c", "i", "d", "a">>

\* a content as the rules of parseCsmHtml see it: whether it includes '<div',
\* '<span' or '<p'; per field, the trimmed text its selector or labelled pattern
\* captures (NULL when nothing matches, '' when the match is blank); the raw
\* items of the descriptor line between its separators; the whole text (the
\* normalised content, or the text of the body); and the trimmed lines of more
\* than two characters that follow the last line containing, in any case, the
\* value of relator: the captured name or, when none was captured, the word
\* 'Desconhecido' (NULL when no line contains it)
Document(isHtml, ecli, processo, data, relator, descritores, sumario, texto, whole, after) ==
    [isHtml |-> isHtml, whole |-> whole, after |-> after,
     found |-> [ecli |-> ecli, processo |-> processo, data |-> data, relator |-> relator,
                descritores |-> descritores, sumario |-> sumario, textoIntegral |-> texto]]

\* a text a selector or a pattern captured
Captured(text) == [text |-> text]

\* `captured || default` for a captured text that may be null or ''
OrElse(value, default) == IF value = NULL \/ value.text = <<>> THEN default ELSE value.text

\* the body of the try block: the fields of dataObj
ExtractFields(doc, url, ts) ==
    LET NonEmpty(d) == d # <<>>
        Kept(l) == l.length < 100 /\ ~l.nota
        ecli == ResolveEcli(OrElse(doc.found.ecli, Desconhecido), url)
        processo == OrElse(doc.found.processo, Desconhecido)
        relator == OrElse(doc.found.relator, Desconhecido)
        descRaw == OrElse(doc.found.descritores, <<>>)
        textoIntegral ==
            IF doc.isHtml THEN OrElse(doc.found.textoIntegral, doc.whole)
            ELSE IF doc.found.textoIntegral # NULL THEN doc.found.textoIntegral.text
            ELSE doc.whole
        window == IF relator # Desconhecido /\ doc.after # NULL
                  THEN SelectSeq(SubSeq(doc.after.text, 1, Min(5, Len(doc.after.text))), Kept)
                  ELSE <<>>
    IN [ecli |-> ecli,
        processo |-> processo,
        data |-> OrElse(doc.found.data, Desconhecida),
        relator |-> relator,
        descritores |-> SelectSeq(descRaw, NonEmpty),
        sumario |-> OrElse(doc.found.sumario, <<>>),
        textoIntegral |-> textoIntegral,
        adjuntos |-> [i \in 1..Len(window) |-> window[i].name],
        url |-> url,
        id |-> AssignId(ecli, processo, ts)]

\* a parser whose exception escapes
parseCsmHtmlUncaught(doc, url, ts) ==
    IF doc = NULL
    THEN [thrown |-> "TypeError"]
    ELSE [success |-> TRUE, data |-> ExtractFields(doc, url, ts)]

\* a parser in which a field without a marker fails the whole extraction
parseCsmHtmlStrict(doc, url, ts) ==
    IF doc = NULL \/ \E f \in DOMAIN doc.found : doc.found[f] = NULL
    THEN [success |-> FALSE, error |-> "message"]
    ELSE [success |-> TRUE, data |-> ExtractFields(doc, url, ts)]

\* parseCsmHtml: content.includes throws on a content that is not a string
\* (doc = NULL) and the catch block turns the exception into the error result
parseCsmHtmlDocument(doc, url, ts) ==
    IF doc = NULL
    THEN [success |-> FALSE, error |-> "message"]
    ELSE [success |-> TRUE, data |-> ExtractFields(doc, url, ts)]

\* url.split('/').filter(Boolean).pop(): the last non-empty segment, if any
LastFilledSegment(url) ==
    LET filled == {i \in 1..Len(url) : url[i] # "/"}
        end == CHOOSE i \in filled : \A k \in filled : k <= i
        slashes == {i \in 1..end : url[i] = "/"}
        start == IF slashes = {} THEN 1
                 ELSE 1 + CHOOSE i \in slashes : \A k \in slashes : k <= i
    IN IF filled = {} THEN NULL ELSE Captured(SubSeq(url, start, end))

\* parseCsmHtml of the markup-only version: its ecli (selectors, then the last
\* non-empty segment of the url with '_' replaced by ':', then 'Desconhecido')
\* and its id
parseCsmHtmlMarkupId(doc, url, ts) ==
    LET fromUrl == IF LastFilledSegment(url) = NULL THEN NULL
                   ELSE Captured(ReplaceChars(LastFilledSegment(url).text, {"_"}, ":"))
        ecli == OrElse(doc.found.ecli, OrElse(fromUrl, Desconhecido))
    IN [ecli |-> ecli, id |-> ecli]

\* the co-signers of the markup-only version: the lines after the last line
\* containing the value of relator, whatever that value is
parseCsmHtmlMarkupAdjuntos(doc) ==
    LET Kept(l) == ~l.nota /\ l.length < 100
        potentialAdjuntos ==
            IF doc.after = NULL THEN <<>>
            ELSE SelectSeq(SubSeq(doc.after.text, 1, Min(5, Len(doc.after.text))), Kept)
    IN [i \in 1..Len(potentialAdjuntos) |-> potentialAdjuntos[i].name]

\* the documents the parser is applied to
Documents ==
    {Document(isHtml, ecli, processo, data, relator, descritores, sumario, texto,
              <<"w">>, after) :
        isHtml \in BOOLEAN,
        ecli \in {NULL, Captured(Ecli1)},
        processo \in {NULL, Captured(<<>>), Captured(Proc1)},
        data \in {NULL, Captured(<<"d">>)},
        relator \in {NULL, Captured(<<>>), Captured(<<"R">>)},
        descritores \in {NULL, Captured(<<<<"k">>, <<>>, <<"j">>>>)},
        sumario \in {NULL, Captured(<<"s">>)},
        texto \in {NULL, Captured(<<>>), Captured(<<"t">>)},
        after \in {NULL, Captured(<<[name |-> <<"A">>, length |-> 12, nota |-> FALSE],
                                     [name |-> <<"N">>, length |-> 30, nota |-> TRUE],
                                     [name |-> <<"L">>, length |-> 120, nota |-> FALSE],
                                     [name |-> <<"B">>, length |-> 99, nota |-> FALSE],
                                     [name |-> <<"C">>, length |-> 3, nota |-> FALSE],
                                     [name |-> <<"F">>, length |-> 10, nota |-> FALSE]>>)}}
    \cup {Document(isHtml, NULL, NULL, NULL, NULL, NULL, NULL, NULL, <<>>, NULL) :
              isHtml \in BOOLEAN}
    \cup {NULL}

\* the urls it is called with: '', the portal's address, and addresses whose
\* last segment is an ECLI written with underscores
Urls ==
    {<<>>, PortalUrl, UrlText.chars, PortalUrl \o <<"E", "C", "L", "I", "_", "1", "_", "5">>}

ParserInit ==
    /\ clipboard \in Documents
    /\ browserUrl \in Urls
    /\ now \in 1..MaxClock
    /\ lastOp = NoOp
    /\ job = NoJob
    /\ pendingUrl = NULL
    /\ svc = NoService
    /\ isFolderSelected = FALSE
    /\ capturedText = NULL
    /\ lastProcessedContent = EmptyText
    /\ isLoading = FALSE
    /\ isAutoProcessing = FALSE
    /\ acordaos = {}
    /\ pendingFiles = 0
    /\ auto = [j \in 1..MaxAuto |-> IdleAuto]
    /\ cc = IdleConfirm
    /\ fc = 0
    /\ refreshing = 0
    /\ hist = NoHistory
    /\ native = NativeService
    /\ virtual = VirtualService
    /\ prevOp = NoOp
    /\ savedIds = {}
    /\ rawLog = EmptyMap
    /\ nOps = 0

\* parseCsmHtml(content, url) is called at millisecond now
ParseCall ==
    /\ lastOp = NoOp
    /\ lastOp' = [op |-> "parseCsmHtml",
                  result |-> parseCsmHtmlDocument(clipboard, browserUrl, now)]
    /\ UNCHANGED <<native, virtual, now, prevOp, savedIds, rawLog, nOps>>
    /\ UNCHANGED <<appVars, batchVars>>

SpecParser == ParserInit /\ [][ParseCall]_vars

\* C13: parseCsmHtml returns, for every content and url, either
\* {success: true, data} without an error or {success: false, error} without
\* data; nothing is thrown
C13_TaggedResult ==
    (lastOp.op = "parseCsmHtml") =>
        LET result == lastOp.result
        IN \/ DOMAIN result = {"success", "data"} /\ result.success
           \/ DOMAIN result = {"success", "error"} /\ ~result.success

\* the parser was applied to a content on which a step throws, and to one
\* on which none does
C13_Witness ==
    /\ lastOp.op = "parseCsmHtml"
    /\ clipboard = NULL
    /\ ~lastOp.result.success

\* the marker of field f is absent from the parsed content; for the ecli, the
\* url carries no ECLI token either
MarkerAbsent(f) ==
    /\ clipboard.found[f] = NULL
    /\ (f = "ecli") => ~(Truthy(browserUrl) /\ StartsWith(LastSegment(browserUrl), EcliToken))

\* the fields with a marker in the content hold what the marker captured, the
\* descriptor list its non-blank items; the list fields without a marker (for
\* the co-signers: without a resolved relator) are empty
ResolvedFieldsKept ==
    LET found == clipboard.found
        data == lastOp.result.data
    IN /\ \A f \in {"ecli", "processo", "data", "relator", "sumario", "textoIntegral"} :
             (found[f] # NULL /\ found[f].text # <<>>) => data[f] = found[f].text
       /\ found.descritores # NULL => data.descritores = <<<<"k">>, <<"j">>>>
       /\ MarkerAbsent("descritores") => data.descritores = <<>>
       /\ MarkerAbsent("relator") => data.adjuntos = <<>>

\* C14: whatever markers are absent from the content, parseCsmHtml returns
\* success, every scalar field without a marker holds 'Desconhecido',
\* 'Desconhecida' or '', every list field without a marker is empty, and the
\* fields with a marker keep their resolved values
C14_GracefulDegradation ==
    (lastOp.op = "parseCsmHtml" /\ clipboard # NULL) =>
        /\ DOMAIN lastOp.result = {"success", "data"} /\ lastOp.result.success
        /\ \A f \in {"ecli", "processo", "data", "relator", "sumario", "textoIntegral"} :
              MarkerAbsent(f) => lastOp.result.data[f] \in {Desconhecido, Desconhecida, <<>>}
        /\ ResolvedFieldsKept

\* C14 as amended: the same, except that textoIntegral without a marker holds
\* the whole text of the content
C14_DegradationKeepsFullText ==
    (lastOp.op = "parseCsmHtml" /\ clipboard # NULL) =>
        /\ DOMAIN lastOp.result = {"success", "data"} /\ lastOp.result.success
        /\ \A f \in {"ecli", "processo", "data", "relator", "sumario"} :
              MarkerAbsent(f) => lastOp.result.data[f] \in {Desconhecido, Desconhecida, <<>>}
        /\ MarkerAbsent("textoIntegral") => lastOp.result.data.textoIntegral = clipboard.whole
        /\ ResolvedFieldsKept

\* a content with some markers absent (processo, textoIntegral) and others
\* present (relator, descritores) was parsed
C14_Witness ==
    /\ lastOp.op = "parseCsmHtml" /\ clipboard # NULL
    /\ MarkerAbsent("processo") /\ MarkerAbsent("textoIntegral") /\ MarkerAbsent("ecli")
    /\ clipboard.found.relator = Captured(<<"R">>)
    /\ clipboard.found.descritores # NULL
    /\ clipboard.whole # <<>>
    /\ lastOp.result.success

\* C15: in every version of parseCsmHtml the id of the extracted record is
\* its ecli when the ecli is not 'Desconhecido', and otherwise the synthetic
\* value built from the processo and the time of the call, which is not the
\* sentinel
C15_IdentityAssignment ==
    (lastOp.op = "parseCsmHtml" /\ clipboard # NULL) =>
        \A r \in {[ecli |-> lastOp.result.data.ecli, id |-> lastOp.result.data.id],
                  parseCsmHtmlMarkupId(clipboard, browserUrl, now)} :
            /\ (r.ecli # Desconhecido) => r.id = r.ecli
            /\ (r.ecli = Desconhecido) =>
                  /\ r.id = SyntheticId(OrElse(clipboard.found.processo, Desconhecido), now)
                  /\ r.id # Desconhecido

(***************************************************************************)
(* The import and bulk-capture handlers (src/unnamed/part_006, part_008,   *)
(* part_003, part_009 and the second component of src/App.tsx)             *)
(***************************************************************************)
MaxImport == 3

\* the entries of an imported file: two records, an object with a processo
\* only, an object with neither ecli nor processo, and null
ImportItems ==
    {Acordao(Ecli1, Ecli1, Proc1, "t1", PortalUrl),
     Acordao(Ecli2, Ecli2, Proc1, "t2", PortalUrl),
     [processo |-> Proc1],
     [note |-> "n"],
     NULL}

\* the text of the chosen file: not JSON, or JSON whose value, after
\* `Array.isArray(data) ? data : [data]`, is a list of entries
ImportFiles ==
    {NoteText} \cup
    {JSONstringify(items) :
        items \in UNION {[1..n -> ImportItems] : n \in 1..MaxImport}}

\* item.ecli / item.processo of an entry that is an object
Field(item, f) == IF f \in DOMAIN item THEN item[f] ELSE <<>>

\* the test that guards the save: item.ecli || item.processo, or item.ecli
Importable(version, item) ==
    \/ Truthy(Field(item, "ecli"))
    \/ version = "part_006" /\ Truthy(Field(item, "processo"))

\* saveProcessedAcordao(item) throws: acordao.ecli.replace on a missing ecli
\* (native), put of an object without its key path id (virtual)
SaveThrows(s, item) ==
    IF s.isFallbackMode THEN "id" \notin DOMAIN item
    ELSE s.rootHandle /\ "ecli" \notin DOMAIN item

\* handleImportJson up to the loop: file.text() and JSON.parse
ImportStart ==
    /\ job = NoJob
    /\ \E file \in ImportFiles, version \in {"part_006", "part_008"} :
          /\ job' = IF JSONparses(file)
                    THEN [pc |-> "loop", version |-> version, items |-> JSONparse(file),
                          i |-> 1, importedCount |-> 0]
                    ELSE [pc |-> "failed", version |-> version, items |-> <<>>,
                          i |-> 1, importedCount |-> 0]
          /\ isLoading' = (version = "part_006" /\ JSONparses(file))
    /\ UNCHANGED <<storeVars, now, pendingUrl>>
    /\ UNCHANGED <<svc, isFolderSelected, capturedText, lastProcessedContent, browserUrl,
                   isAutoProcessing, acordaos, pendingFiles, clipboard, auto, cc, fc,
                   refreshing, hist>>

\* one iteration of `for (const item of items)`; an exception leaves the loop
\* for the catch block of the handler
ImportItem ==
    /\ job.pc = "loop"
    /\ job.i <= Len(job.items)
    /\ LET item == job.items[job.i]
       IN IF item = NULL \/ (Importable(job.version, item) /\ SaveThrows(svc, item))
          THEN /\ job' = [job EXCEPT !.pc = "failed"]
               /\ isLoading' = FALSE
               /\ svc' = svc
          ELSE IF Importable(job.version, item)
          THEN /\ svc' = saveProcessedAcordao(svc, item)
               /\ job' = [job EXCEPT !.i = @ + 1, !.importedCount = @ + 1]
               /\ isLoading' = isLoading
          ELSE /\ job' = [job EXCEPT !.i = @ + 1]
               /\ UNCHANGED <<svc, isLoading>>
    /\ UNCHANGED <<storeVars, now, pendingUrl>>
    /\ UNCHANGED <<isFolderSelected, capturedText, lastProcessedContent, browserUrl,
                   isAutoProcessing, acordaos, pendingFiles, clipboard, auto, cc, fc,
                   refreshing, hist>>

\* after the loop: refreshData() and the notification
ImportFinish ==
    /\ job.pc = "loop"
    /\ job.i > Len(job.items)
    /\ job' = [job EXCEPT !.pc = "done"]
    /\ acordaos' = listProcessedAcordaos(svc)
    /\ isLoading' = FALSE
    /\ UNCHANGED <<storeVars, now, pendingUrl>>
    /\ UNCHANGED <<svc, isFolderSelected, capturedText, lastProcessedContent, browserUrl,
                   isAutoProcessing, pendingFiles, clipboard, auto, cc, fc,
                   refreshing, hist>>

\* a folder has been selected, with either backend
BatchInit ==
    /\ svc \in {selectDirectory(NoService, Granted, TRUE),
                selectDirectory(NoService, "NotAllowedError", TRUE)}
    /\ isFolderSelected = TRUE
    /\ job = NoJob
    /\ pendingUrl = NULL
    /\ capturedText = NULL
    /\ lastProcessedContent = EmptyText
    /\ browserUrl = PortalUrl
    /\ isLoading = FALSE
    /\ isAutoProcessing = FALSE
    /\ acordaos = {}
    /\ pendingFiles = 0
    /\ clipboard = EmptyText
    /\ auto = [j \in 1..MaxAuto |-> IdleAuto]
    /\ cc = IdleConfirm
    /\ fc = 0
    /\ refreshing = 0
    /\ hist = NoHistory
    /\ now = 1
    /\ native = NativeService
    /\ virtual = VirtualService
    /\ lastOp = NoOp
    /\ prevOp = NoOp
    /\ savedIds = {}
    /\ rawLog = EmptyMap
    /\ nOps = 0

SpecImport == BatchInit /\ [][ImportStart \/ ImportItem \/ ImportFinish]_vars

\* C16: when handleImportJson has ended, every entry of the file that is a
\* record is among the stored records, wherever the malformed entries stand
C16_ImportSkipsMalformed ==
    (job.pc \in {"done", "failed"}) =>
        \A k \in 1..Len(job.items) :
            DOMAIN job.items[k] = DOMAIN Acordao(<<>>, <<>>, <<>>, "", <<>>)
                => job.items[k] \in listProcessedAcordaos(svc)

MaxUrls == 2

\* the lines of the textarea that start with 'http': two addresses of the
\* portal and one of another site
BulkUrls == {UrlText.chars, PortalUrl \o <<"x">>, <<"h", "t", "t", "p", ":", "o">>}
UrlLists == UNION {[1..n -> BulkUrls] : n \in 1..MaxUrls}

\* what processSingleUrl(url) runs into: everything it awaits completes, the
\* url is not one of the portal (no fetch is made), fetchAcordaoHtml throws,
\* saveRawTxt rejects, or saveProcessedAcordao rejects after the raw save; the
\* manual prompt of part_009 asks for the message 'CORS_ERROR', which no
\* fetchAcordaoHtml throws ('CORS Error', 'CORS_PROXY_ERROR'), so a failed
\* fetch returns false there too
Outcomes(version, url, html) ==
    IF version # "App.tsx" /\ ~StartsWith(url, PortalUrl) THEN {"notPortal"}
    ELSE {"ok", "fetchFailed", "rawSaveFailed"}
         \cup IF version # "part_009" /\ parseCsmHtml(html, url, now).success
              THEN {"recordSaveFailed"} ELSE {}

\* `if (ok) successCount++` without its test
CountAfterAlways(count, ok) == count + 1

\* if (ok) successCount++
CountAfter(count, ok) == IF ok THEN count + 1 ELSE count

\* the raw capture and the record that saveContent (App.tsx) and
\* processSingleUrl (part_003, part_009) write for a content
saveContent(s, version, html, url, ts, recordSaved) ==
    LET extraction == parseCsmHtml(html, url, ts)
        ecli == IF extraction.success /\ Truthy(extraction.data.ecli)
                THEN extraction.data.ecli
                ELSE IF Truthy(LastSegment(url)) THEN LastSegment(url)
                ELSE <<"d", "o", "c", "_">> \o Digits(ts)
        fileName == IF version = "part_009"
                    THEN ReplaceChars(LastFilledSegment(url).text, {":"}, "_")
                    ELSE ReplaceChars(ecli, UnsafeChars, "_")
        raw == saveRawTxt(s, fileName, html, ts)
    IN IF version # "part_009" /\ extraction.success /\ recordSaved
       THEN saveProcessedAcordao(raw, extraction.data)
       ELSE raw

\* handleBulkCapture up to its loop
BulkStart ==
    /\ job = NoJob /\ ~isLoading /\ isFolderSelected
    /\ \E urls \in UrlLists, version \in {"App.tsx", "part_003", "part_009"} :
          job' = [pc |-> "next", version |-> version, urls |-> urls, i |-> 1,
                  successCount |-> 0, handled |-> <<>>, outcomes |-> <<>>,
                  failed |-> {}, captured |-> {}]
    /\ isLoading' = TRUE
    /\ UNCHANGED <<storeVars, now, pendingUrl>>
    /\ UNCHANGED <<svc, isFolderSelected, capturedText, lastProcessedContent, browserUrl,
                   isAutoProcessing, acordaos, pendingFiles, clipboard, auto, cc, fc,
                   refreshing, hist>>

\* the loop calls processSingleUrl(lines[i]) and awaits it
BulkFetch ==
    /\ job.pc = "next"
    /\ job.i <= Len(job.urls)
    /\ job' = [job EXCEPT !.pc = "fetching", !.handled = Append(@, job.urls[job.i])]
    /\ UNCHANGED <<storeVars, now, pendingUrl>>
    /\ UNCHANGED <<svc, isFolderSelected, capturedText, lastProcessedContent, browserUrl,
                   isLoading, isAutoProcessing, acordaos, pendingFiles, clipboard, auto,
                   cc, fc, refreshing, hist>>

\* processSingleUrl settles: the content is saved and true returned, or the
\* catch block returns false (and, in App.tsx, sets pendingUrl)
BulkSettle ==
    /\ job.pc = "fetching"
    /\ LET url == job.urls[job.i]
       IN \E html \in Contents \cup {DocThrows} :
          \E outcome \in Outcomes(job.version, url, html) :
            LET ok == outcome = "ok"
            IN /\ svc' = IF outcome \in {"ok", "recordSaveFailed"}
                         THEN saveContent(svc, job.version, html, url, now, ok)
                         ELSE svc
               /\ job' = [job EXCEPT !.pc = "next", !.i = @ + 1,
                                     !.successCount = CountAfter(@, ok),
                                     !.outcomes = Append(@, outcome),
                                     !.failed = IF outcome = "fetchFailed"
                                                THEN @ \cup {url} ELSE @]
               /\ pendingUrl' = IF job.version # "App.tsx" THEN pendingUrl
                                ELSE IF ok THEN NULL ELSE [url |-> url]
               /\ acordaos' = IF job.version = "App.tsx" /\ ok
                              THEN listProcessedAcordaos(svc') ELSE acordaos
    /\ UNCHANGED <<storeVars, now>>
    /\ UNCHANGED <<isFolderSelected, capturedText, lastProcessedContent, browserUrl,
                   isLoading, isAutoProcessing, pendingFiles, clipboard, auto,
                   cc, fc, refreshing, hist>>

\* after the loop: `await refreshData()` (part_003, part_009), then
\* setIsLoading(false); when a listing of refreshData rejects, the await throws
\* and handleBulkCapture ends there
BulkFinish ==
    /\ job.pc = "next"
    /\ job.i > Len(job.urls)
    /\ \E ok \in BOOLEAN :
          LET refreshed == job.version # "App.tsx" /\ ok
              thrown == job.version # "App.tsx" /\ ~ok
          IN /\ job' = [job EXCEPT !.pc = IF thrown THEN "thrown" ELSE "done"]
             /\ isLoading' = IF thrown THEN isLoading ELSE FALSE
             /\ acordaos' = IF refreshed THEN listProcessedAcordaos(svc) ELSE acordaos
    /\ UNCHANGED <<storeVars, now, pendingUrl>>
    /\ UNCHANGED <<svc, isFolderSelected, capturedText, lastProcessedContent, browserUrl,
                   isAutoProcessing, pendingFiles, clipboard, auto, cc, fc,
                   refreshing, hist>>

\* checkClipboard (App.tsx): while a url is pending, a copied text longer than
\* 500 characters that is not an address is saved as the content of that url
checkClipboard ==
    /\ pendingUrl # NULL
    /\ \E text \in ClipboardTexts :
          /\ text.length > 500 /\ ~StartsWith(text.chars, <<"h", "t", "t", "p">>)
          /\ clipboard' = text
          /\ svc' = saveContent(svc, "App.tsx", text, pendingUrl.url, now, TRUE)
    /\ acordaos' = listProcessedAcordaos(svc')
    /\ job' = [job EXCEPT !.captured = @ \cup {pendingUrl.url}]
    /\ pendingUrl' = NULL
    /\ UNCHANGED <<storeVars, now>>
    /\ UNCHANGED <<isFolderSelected, capturedText, lastProcessedContent, browserUrl,
                   isLoading, isAutoProcessing, pendingFiles, auto, cc, fc,
                   refreshing, hist>>

BulkNext ==
    \/ BulkStart
    \/ BulkFetch
    \/ BulkSettle
    \/ BulkFinish
    \/ checkClipboard

SpecBulk == BatchInit /\ [][BulkNext]_vars

\* C17: every url whose automatic retrieval failed is the pending url of the
\* manual-capture state until its content has been captured manually, also
\* when several urls of the batch fail
C17_FailedStaySurfaced ==
    (job.pc # "idle" /\ job.version = "App.tsx") =>
        \A url \in job.failed \ job.captured : pendingUrl = [url |-> url]

\* the urls of the batch (part_003, part_009) are handed to processSingleUrl
\* one at a time, each once, in list order, the next one after the previous
\* one has settled; when the batch has ended every url has settled
BatchInOrder ==
    /\ job.handled = SubSeq(job.urls, 1, Len(job.handled))
    /\ Len(job.handled) = Len(job.outcomes) + (IF job.pc = "fetching" THEN 1 ELSE 0)
    /\ (job.pc \in {"done", "thrown"}) => Len(job.outcomes) = Len(job.urls)

\* C18: batch mode handles the urls sequentially, each once and in order, and
\* the success count is the number of urls whose fetch and raw save succeeded
C18_SequentialBatch ==
    (job.pc # "idle" /\ job.version \in {"part_003", "part_009"}) =>
        /\ BatchInOrder
        /\ job.successCount =
              Cardinality({k \in 1..Len(job.outcomes) :
                              job.outcomes[k] \in {"ok", "recordSaveFailed"}})

\* C18 as amended: the same, the success count being the number of urls
\* whose fetch and every store write made for them succeeded
C18_SequentialBatchAllWrites ==
    (job.pc # "idle" /\ job.version \in {"part_003", "part_009"}) =>
        /\ BatchInOrder
        /\ job.successCount =
              Cardinality({k \in 1..Len(job.outcomes) : job.outcomes[k] = "ok"})

\* a batch of two urls is done, one saved and one failed
C18_Witness ==
    /\ job.pc = "done" /\ job.version = "part_003"
    /\ Len(job.urls) = 2
    /\ job.successCount = 1
    /\ \E k \in 1..2 : job.outcomes[k] = "fetchFailed"
    /\ listRawFiles(svc) # {}

(***************************************************************************)
(* C21: closing the capture dialog without confirming (the close button,   *)
(* "Ignorar", "Cancelar") abandons the candidate with no store operation:  *)
(* the raw captures and the processed records listed after the step are    *)
(* those listed before it.                                                 *)
(***************************************************************************)
C21_CancelLeavesStore ==
    [][(capturedText # NULL /\ capturedText' = NULL /\ cc' = cc)
          => /\ listRawFiles(svc') = listRawFiles(svc)
             /\ listProcessedAcordaos(svc') = listProcessedAcordaos(svc)
             /\ svc' = svc]_vars

\* a detected candidate was abandoned: the dialog is closed, the candidate is
\* remembered as last processed and no confirmation ever handled it
C21_Witness ==
    /\ capturedText = NULL
    /\ cc = IdleConfirm
    /\ lastProcessedContent # EmptyText
    /\ LooksLikeDecision(lastProcessedContent)
    /\ lastProcessedContent \notin hist.returned
    /\ isReady(svc)

C23_CoSigners ==
    (lastOp.op = "parseCsmHtml" /\ clipboard # NULL) =>
        LET relator == clipboard.found.relator
            unresolved == relator = NULL \/ relator.text = <<>>
            lines == clipboard.after.text
            inWindow == {i \in 1..Len(lines) : i <= 5 /\ lines[i].length < 100 /\ ~lines[i].nota}
        IN \A adjuntos \in {lastOp.result.data.adjuntos, parseCsmHtmlMarkupAdjuntos(clipboard)} :
              IF unresolved \/ clipboard.after = NULL
              THEN adjuntos = <<>>
              ELSE /\ Len(adjuntos) = Cardinality(inWindow)
                   /\ \A k \in 1..Len(adjuntos) :
                         \E i \in inWindow :
                            /\ adjuntos[k] = lines[i].name
                            /\ Cardinality({j \in inWindow : j < i}) = k - 1

C25_CandidateClasses ==
    [][(ReadsClipboard /\ clipboard.length # 0 /\ clipboard # lastProcessedContent) =>
          IF IsPortalUrl(clipboard)
          THEN /\ browserUrl' = clipboard.chars
               /\ lastProcessedContent' = clipboard
               /\ UNCHANGED <<capturedText, svc>>
          ELSE IF clipboard.length >= MinDialogLength /\ LooksLikeDecision(clipboard)
          THEN /\ capturedText' = clipboard
               /\ lastProcessedContent' = clipboard
               /\ UNCHANGED <<browserUrl, svc>>
          ELSE UNCHANGED <<capturedText, lastProcessedContent, browserUrl, svc>>]_vars

(***************************************************************************)
(* parseCsmHtml, step 8 (src/services/parserService.ts, lines 36-81): the  *)
(* isolation of the legal reasoning.  textoIntegral is seen as the         *)
(* sequence of its blocks: plain text, a line matching a pattern of        *)
(* keywordsDireito, and a line matching a pattern of decisaoKeywords.  A   *)
(* block has its length in characters; a header block starts at the        *)
(* newline its pattern matches, `lead` whitespace characters before the    *)
(* header's first letter; `trail` is the whitespace a block ends with.     *)
(* The result is the part of textoIntegral from index `from` up to index   *)
(* `to`.                                                                   *)
(***************************************************************************)
MaxBlocks == 4

\* textoIntegral.length > 6000 ? textoIntegral.substring(6000) : textoIntegral
PrefixSkip == 6000

\* a check that cuts at a header wherever it is
PastMinimumAlways(index) == index >= 0

\* dMatch.index > 800
PastMinimum(index) == index > 800

\* textoIntegral is trimmed: it starts and ends with plain text, and the
\* patterns need a newline before the header
BodyTexts ==
    LET Plain(len, trail) ==
            [kind |-> "plain", rank |-> 0, lead |-> 0, trail |-> trail, len |-> len]
        Header(kind, rank, lead, len) ==
            [kind |-> kind, rank |-> rank, lead |-> lead, trail |-> 0, len |-> len]
        blocks == {Plain(500, 0), Plain(7000, 1),
                   Header("direito", 1, 1, 30), Header("direito", 2, 3, 15),
                   Header("decisao", 1, 1, 10), Header("decisao", 3, 2, 15)}
    IN {<<first>> \o middle \o <<Plain(500, 0)>> :
           first \in {Plain(500, 0), Plain(7000, 1)},
           middle \in UNION {[1..n -> blocks] : n \in 0..MaxBlocks}}

\* the index in the text of the first character of block i (0-based, as
\* match.index); with i = Len(text) + 1, the length of the text
RECURSIVE IndexOfBlock(_, _)
IndexOfBlock(text, i) == IF i = 1 THEN 0 ELSE IndexOfBlock(text, i - 1) + text[i - 1].len

fundamentacao(text) ==
    LET n == Len(text)
        length == IndexOfBlock(text, n + 1)
        \* the first regex of keywordsDireito that matches, and its match
        ranks == {text[i].rank : i \in {j \in 1..n : text[j].kind = "direito"}}
        regex == CHOOSE r \in ranks : \A q \in ranks : r <= q
        matches == {i \in 1..n : text[i].kind = "direito" /\ text[i].rank = regex}
        match == CHOOSE i \in matches : \A j \in matches : i <= j
        \* textoIntegral.substring(startIndex).trim() starts at the header's letter
        start == IndexOfBlock(text, match) + text[match].lead
        \* fundamentacao.match(dRegex): the first match of dRegex after the start
        dMatches(d) == {j \in (match + 1)..n : text[j].kind = "decisao" /\ text[j].rank = d}
        dMatch(d) == CHOOSE j \in dMatches(d) : \A k \in dMatches(d) : j <= k
        cutting == {d \in 1..3 : /\ dMatches(d) # {}
                                 /\ PastMinimum(IndexOfBlock(text, dMatch(d)) - start)}
        cut == dMatch(CHOOSE d \in cutting : \A e \in cutting : d <= e)
    IN IF ranks = {}
       THEN [from |-> IF length > PrefixSkip THEN PrefixSkip ELSE 0, to |-> length]
       ELSE IF cutting = {}
       THEN [from |-> start, to |-> length]
       ELSE [from |-> start, to |-> IndexOfBlock(text, cut) - text[cut - 1].trail]

\* parseCsmHtml is applied to a content whose full text is one of BodyTexts
SectionInit ==
    /\ clipboard \in BodyTexts
    /\ browserUrl = PortalUrl
    /\ now = 1
    /\ lastOp = NoOp
    /\ job = NoJob
    /\ pendingUrl = NULL
    /\ svc = NoService
    /\ isFolderSelected = FALSE
    /\ capturedText = NULL
    /\ lastProcessedContent = EmptyText
    /\ isLoading = FALSE
    /\ isAutoProcessing = FALSE
    /\ acordaos = {}
    /\ pendingFiles = 0
    /\ auto = [j \in 1..MaxAuto |-> IdleAuto]
    /\ cc = IdleConfirm
    /\ fc = 0
    /\ refreshing = 0
    /\ hist = NoHistory
    /\ native = NativeService
    /\ virtual = VirtualService
    /\ prevOp = NoOp
    /\ savedIds = {}
    /\ rawLog = EmptyMap
    /\ nOps = 0

SectionCall ==
    /\ lastOp = NoOp
    /\ lastOp' = [op |-> "fundamentacao", result |-> fundamentacao(clipboard)]
    /\ UNCHANGED <<native, virtual, now, prevOp, savedIds, rawLog, nOps>>
    /\ UNCHANGED <<appVars, batchVars>>

SpecSection == SectionInit /\ [][SectionCall]_vars

(***************************************************************************)
(* C26: fundamentacao is a contiguous part of textoIntegral.  It starts at *)
(* the first match of the first pattern of the list that occurs in the     *)
(* text; when no pattern occurs it is the text without its first 6000      *)
(* characters, or the whole text when that is not longer than 6000.  It    *)
(* ends before the end of the text only at a decision header that lies     *)
(* more than 800 characters after the start; a header nearer to the start  *)
(* or before it never ends it.                                             *)
(***************************************************************************)
C26_BodySection ==
    (lastOp.op = "fundamentacao") =>
        LET text == clipboard
            part == lastOp.result
            length == IndexOfBlock(text, Len(text) + 1)
            Direito(i) == text[i].kind = "direito"
            occurring == {i \in 1..Len(text) : Direito(i)}
            \* block i is the first match of the first pattern that occurs
            Start(i) ==
                /\ Direito(i)
                /\ \A j \in occurring : text[i].rank <= text[j].rank
                /\ \A j \in occurring : text[j].rank = text[i].rank => i <= j
        IN /\ 0 <= part.from /\ part.from <= part.to /\ part.to <= length
           /\ occurring # {} =>
                 \E i \in occurring : Start(i) /\ part.from = IndexOfBlock(text, i) + text[i].lead
           /\ occurring = {} =>
                 /\ part.from = IF length > 6000 THEN 6000 ELSE 0
                 /\ part.to = length
           /\ part.to < length =>
                 \E j \in 2..Len(text) :
                    /\ text[j].kind = "decisao"
                    /\ part.to = IndexOfBlock(text, j) - text[j - 1].trail
                    /\ IndexOfBlock(text, j) - part.from > 800

\* a text with a reasoning header, a decision header within 800 characters
\* of it and another one beyond: the part ends at the one beyond
C26_Witness ==
    /\ lastOp.op = "fundamentacao"
    /\ \E i, j, k \in 1..Len(clipboard) :
          /\ i < j /\ j < k
          /\ clipboard[i].kind = "direito"
          /\ clipboard[j].kind = "decisao" /\ clipboard[k].kind = "decisao"
          /\ IndexOfBlock(clipboard, j) - lastOp.result.from <= 800
          /\ lastOp.result.to = IndexOfBlock(clipboard, k) - clipboard[k - 1].trail
    /\ lastOp.result.to < IndexOfBlock(clipboard, Len(clipboard) + 1)

\* a text longer than 6000 characters without any reasoning header
C26_SkipWitness ==
    /\ lastOp.op = "fundamentacao"
    /\ lastOp.result.from = PrefixSkip
    /\ lastOp.result.to > PrefixSkip

(***************************************************************************)
(* C27: the in-flight flag of autoProcessFiles is released by the run that *)
(* set it, also when a save, a delete or the final listing of that run     *)
(* fails: isAutoProcessing is true only while a run is past its listing    *)
(* and has not ended.                                                      *)
(***************************************************************************)
C27_FlagReleased ==
    isAutoProcessing => \E j \in 1..MaxAuto : auto[j].pc \in {"saving", "deleting", "final"}

(***************************************************************************)
(* C28: when confirmCapture interleaves with a pass of autoProcessFiles    *)
(* started by the timer, a captured document is extracted at most once     *)
(* and ends up as one processed record: the pass never holds a record it   *)
(* extracted from the raw capture that confirmCapture has extracted and    *)
(* not yet deleted, and no two listed records carry the same text.         *)
(***************************************************************************)
C28_ExtractedOnce ==
    /\ \A j \in 1..MaxAuto :
          (auto[j].pc \in {"saving", "deleting"} /\ cc.pc \in {"savingRec", "deleting"})
             => auto[j].raw[auto[j].i].name # cc.fileName
    /\ \A r, q \in listProcessedAcordaos(svc) : r.texto = q.texto => r = q

(***************************************************************************)
(* C29: saveRawTxt and saveProcessedAcordao called while no backend is     *)
(* selected (isReady() is false) do not report success for data they did   *)
(* not keep: the call is rejected, or what it was given is listed once a   *)
(* backend has been selected.                                              *)
(***************************************************************************)
C29_NoSilentDrop ==
    [][(/\ nOps' = nOps + 1
        /\ ~isReady(svc)
        /\ lastOp'.op \in {"saveRawTxt", "saveProcessedAcordao"})
          => \/ lastOp'.settled = "rejected"
             \/ \A picker \in PickerOutcomes :
                   LET selected == selectDirectory(svc', picker, TRUE)
                   IN IF lastOp'.op = "saveRawTxt"
                      THEN \E e \in listRawFiles(selected) :
                              e.name = lastOp'.name /\ e.content = lastOp'.content
                      ELSE lastOp'.acordao \in listProcessedAcordaos(selected)]_vars

(***************************************************************************)
(* C30: handleBulkCapture releases the busy flag however the batch goes:   *)
(* once it has ended, the fetches, the saves and the final refreshData     *)
(* having succeeded or failed, isLoading is false.                         *)
(***************************************************************************)
C30_BusyFlagReleased ==
    (job.pc \in {"done", "thrown"}) => ~isLoading

====
